---- MODULE Spec2Model ----
(***************************************************************************)
(* Model of the AI Voice Note Summarizer (src/frontend/src/App.js): the    *)
(* Express handler of POST /api/transcribe-and-summarize (the index.js     *)
(* part, lines 238-374) and the React component App (lines 7-234).         *)
(*                                                                         *)
(* A JavaScript string is modelled as a sequence of tokens, so that        *)
(* JSON.parse is a real parser that can accept or reject a text.  A        *)
(* JavaScript value is a record tagged with its type.                      *)
(***************************************************************************)
EXTENDS Integers, Sequences, FiniteSets, TLC

(***************************************************************************)
(* Bounds                                                                  *)
(***************************************************************************)
NumReqs == 2
MaxTextLen == 3
MaxItems == 2
MaxRecordings == 3
MaxUploads == 2

Reqs == 1..NumReqs

(***************************************************************************)
(* JavaScript values                                                       *)
(***************************************************************************)
Undefined == [t |-> "undefined"]
Null == [t |-> "null"]
Bool(b) == [t |-> "boolean", b |-> b]
Num(n) == [t |-> "number", n |-> n]
Str(s) == [t |-> "string", s |-> s]
Arr(a) == [t |-> "array", a |-> a]
Obj(o) == [t |-> "object", o |-> o]
EmptyObj == Obj([k \in {} |-> Null])

\* tokens of a text: punctuation, string literal, number literal,
\* the literals null/true/false, and any other word
Tok(k, v) == [k |-> k, v |-> v]
P(c) == Tok("punct", c)
S(s) == Tok("str", s)
N(n) == Tok("num", n)
L(l) == Tok("lit", l)
W(w) == Tok("word", w)

\* the text of a one-word message
Msg(m) == <<W(m)>>

\* JavaScript truthiness of a value (ToBoolean)
Truthy(v) ==
  CASE v.t = "undefined" -> FALSE
    [] v.t = "null" -> FALSE
    [] v.t = "boolean" -> v.b
    [] v.t = "number" -> v.n # "0"
    [] v.t = "string" -> v.s # <<>>
    [] OTHER -> TRUE

(***************************************************************************)
(* JSON.parse (line 338), over the tokens of the text                      *)
(***************************************************************************)
Fail == [ok |-> FALSE]
Ok(v, i) == [ok |-> TRUE, val |-> v, next |-> i]

IsPunct(toks, i, c) == i <= Len(toks) /\ toks[i] = P(c)

RECURSIVE ParseValue(_, _)
RECURSIVE ParseElements(_, _, _)
RECURSIVE ParseMembers(_, _, _)

\* elements of an array after "[" or after a ","; acc holds those read
ParseElements(toks, i, acc) ==
  LET e == ParseValue(toks, i) IN
  IF ~e.ok THEN Fail
  ELSE IF IsPunct(toks, e.next, ",")
       THEN ParseElements(toks, e.next + 1, Append(acc, e.val))
  ELSE IF IsPunct(toks, e.next, "]")
       THEN Ok(Arr(Append(acc, e.val)), e.next + 1)
  ELSE Fail

\* members of an object after "{" or after a ","; a repeated key keeps
\* its last value
ParseMembers(toks, i, acc) ==
  IF i + 1 <= Len(toks) /\ toks[i].k = "str" /\ toks[i + 1] = P(":")
  THEN LET e == ParseValue(toks, i + 2) IN
       IF ~e.ok THEN Fail
       ELSE LET acc2 == (toks[i].v :> e.val) @@ acc IN
            IF IsPunct(toks, e.next, ",")
            THEN ParseMembers(toks, e.next + 1, acc2)
            ELSE IF IsPunct(toks, e.next, "}")
                 THEN Ok(Obj(acc2), e.next + 1)
            ELSE Fail
  ELSE Fail

ParseValue(toks, i) ==
  IF i > Len(toks) THEN Fail
  ELSE LET tk == toks[i] IN
    CASE tk.k = "str" -> Ok(Str(Msg(tk.v)), i + 1)
      [] tk.k = "num" -> Ok(Num(tk.v), i + 1)
      [] tk.k = "lit" ->
           Ok(IF tk.v = "null" THEN Null ELSE Bool(tk.v = "true"), i + 1)
      [] tk = P("[") ->
           IF IsPunct(toks, i + 1, "]") THEN Ok(Arr(<<>>), i + 2)
           ELSE ParseElements(toks, i + 1, <<>>)
      [] tk = P("{") ->
           IF IsPunct(toks, i + 1, "}") THEN Ok(EmptyObj, i + 2)
           ELSE ParseMembers(toks, i + 1, EmptyObj.o)
      [] OTHER -> Fail

\* ToString of the argument of JSON.parse: a string is itself, null and
\* undefined become the words "null" and "undefined"
ToText(v) ==
  CASE v.t = "string" -> v.s
    [] v.t = "null" -> <<L("null")>>
    [] OTHER -> <<W("undefined")>>

\* JSON.parse(v): ok with the value, or not ok (SyntaxError)
JSONParse(v) ==
  LET toks == ToText(v)
      e == ParseValue(toks, 1)
  IN IF e.ok /\ e.next = Len(toks) + 1 THEN [ok |-> TRUE, val |-> e.val]
     ELSE Fail

(***************************************************************************)
(* res.json (lines 347, 364): JSON.stringify of the body.  undefined in    *)
(* an array is written as null, an undefined member is left out.           *)
(***************************************************************************)
RECURSIVE Stringify(_)
Stringify(v) ==
  CASE v.t = "array" ->
         Arr([i \in 1..Len(v.a) |->
                IF v.a[i].t = "undefined" THEN Null ELSE Stringify(v.a[i])])
    [] v.t = "object" ->
         Obj([k \in {j \in DOMAIN v.o : v.o[j].t # "undefined"} |->
                Stringify(v.o[k])])
    [] OTHER -> v

(***************************************************************************)
(* Property access v[k]: a TypeError on undefined and null                 *)
(***************************************************************************)
Threw(e) == [ok |-> FALSE, err |-> e]
Got(v) == [ok |-> TRUE, val |-> v]

\* an Error object: message, and the response axios attaches (or none)
NoResponse == [none |-> TRUE]
Error(m) == [message |-> m, response |-> NoResponse]
TypeError(k) == Error(<<W("Cannot read properties of undefined (reading"), W(k)>>)

Prop(v, k) ==
  CASE v.t \in {"undefined", "null"} -> Threw(TypeError(k))
    [] v.t = "object" -> Got(IF k \in DOMAIN v.o THEN v.o[k] ELSE Undefined)
    [] OTHER -> Got(Undefined)

\* v[0]
First(v) ==
  CASE v.t \in {"undefined", "null"} -> Threw(TypeError("0"))
    [] v.t = "array" -> Got(IF Len(v.a) >= 1 THEN v.a[1] ELSE Undefined)
    [] OTHER -> Got(Undefined)

(***************************************************************************)
(* Inputs: what the client uploads and what the two providers reply        *)
(***************************************************************************)
\* audio bodies a client may upload (the last one is an empty recording)
AudioBodies == {<<1, 2>>, <<3>>, <<>>}

\* replies of aai.transcripts.transcribe: a transcript object or a rejection
TranscribeResolved(text) == [settled |-> "resolved", text |-> text]
TranscribeRejected == [settled |-> "rejected", err |-> Error(Msg("fetch failed"))]
TranscriptTexts == {<<W("Buy milk."), W("Call Bob.")>>, <<W("Hello")>>}
TranscribeReplies ==
  {TranscribeResolved(Str(tx)) : tx \in TranscriptTexts}
    \cup {TranscribeResolved(Str(<<>>)), TranscribeResolved(Null),
          TranscribeResolved(Undefined), TranscribeRejected}

\* the request body of the completion call (lines 298-322); the user
\* message is the template of lines 308-318 around the transcript
\* (UserMessageNoTranscript: the template left uninterpolated)
SystemPrompt ==
  Msg("You are a helpful assistant that summarizes voice notes into key points and action items.")
UserMessageNoTranscript(transcriptText) ==
  Msg("Here is a voice note transcript:") \o <<P("\"")>> \o Msg("${transcriptText}")
    \o <<P("\"")>> \o Msg("Return ONLY valid JSON (no backticks, no markdown) with this exact shape: ...")
UserMessage(transcriptText) ==
  Msg("Here is a voice note transcript:") \o <<P("\"")>> \o ToText(transcriptText)
    \o <<P("\"")>> \o Msg("Return ONLY valid JSON (no backticks, no markdown) with this exact shape: ...")
CompletionRequest(transcriptText) ==
  [model |-> "nex-agi/deepseek-v3.1-nex-n1:free",
   messages |-> <<[role |-> "system", content |-> SystemPrompt],
                  [role |-> "user", content |-> UserMessage(transcriptText)]>>]

\* completion texts: the text of the spec's scenarios and texts that
\* break the requested shape in one way each
ValidText ==
  <<P("{"), S("key_points"), P(":"), P("["), S("Buy milk"), P("]"), P(","),
    S("action_items"), P(":"), P("["), S("Call Bob"), P("]"), P("}")>>
ProseText == <<W("Sure!"), W("Here's your summary: ...")>>
\* the valid text inside a markdown code fence
FencedText == <<W("<fence>json")>> \o ValidText \o <<W("<fence>")>>
TrailingCommaText ==
  <<P("{"), S("key_points"), P(":"), P("["), S("Buy milk"), P(","), P("]"),
    P(","), S("action_items"), P(":"), P("["), P("]"), P("}")>>
LackingFieldText ==
  <<P("{"), S("key_points"), P(":"), P("["), S("Buy milk"), P("]"), P("}")>>
WrongTypeText ==
  <<P("{"), S("key_points"), P(":"), S("Buy milk"), P(","),
    S("action_items"), P(":"), L("null"), P("}")>>
SampleTexts ==
  {ValidText, ProseText, FencedText, TrailingCommaText, LackingFieldText,
   WrongTypeText, <<>>}

\* the texts of the requested shape: both fields, in either order, each
\* an array of at most MaxItems strings
ItemStrings == {"Buy milk", "Call Bob"}
ItemLists == UNION {[1..n -> ItemStrings] : n \in 0..MaxItems}
RECURSIVE RenderItems(_)
RenderItems(items) ==
  IF Len(items) = 0 THEN <<>>
  ELSE IF Len(items) = 1 THEN <<S(items[1])>>
  ELSE <<S(items[1]), P(",")>> \o RenderItems(Tail(items))
RenderArray(items) == <<P("[")>> \o RenderItems(items) \o <<P("]")>>
ShapedText(keyPoints, actionItems, swapped) ==
  LET kp == <<S("key_points"), P(":")>> \o RenderArray(keyPoints)
      ai == <<S("action_items"), P(":")>> \o RenderArray(actionItems)
  IN <<P("{")>> \o (IF swapped THEN ai ELSE kp) \o <<P(",")>>
       \o (IF swapped THEN kp ELSE ai) \o <<P("}")>>
ShapedTexts ==
  {ShapedText(kp, ai, sw) : kp \in ItemLists, ai \in ItemLists, sw \in BOOLEAN}

\* every text of at most MaxTextLen tokens over a small alphabet
Alphabet ==
  {P("{"), P("}"), P("["), P("]"), P(","), P(":"), S("key_points"), N("42"),
   L("null"), W("Sure!")}
ShortTexts == UNION {[1..n -> Alphabet] : n \in 0..MaxTextLen}

\* the body of a 2xx reply of the completion provider: choices[0].message
\* with the given content (Undefined: the message has no content)
ChatData(content) ==
  Obj("choices" :>
    Arr(<<Obj("message" :>
      Obj(IF content.t = "undefined"
          THEN ("role" :> Str(Msg("assistant")))
          ELSE ("role" :> Str(Msg("assistant"))) @@ ("content" :> content)))>>))
NoChoicesData == Obj("error" :> Obj("message" :> Str(Msg("Provider returned error"))))
EmptyChoicesData == Obj("choices" :> Arr(<<>>))

\* non-success replies: status and body
UpstreamStatuses == {401, 429}
UpstreamBodies ==
  {Obj("error" :> Obj("message" :> Str(Msg("Rate limit exceeded")))),
   Str(Msg("Bad Gateway")), Str(<<>>)}

\* what axios.post settles with: a response or a rejection
CompletionResolved(data) == [settled |-> "resolved", data |-> data]
CompletionRejected(err) == [settled |-> "rejected", err |-> err]
NetworkError == Error(Msg("Network Error"))
StatusError(status, data) ==
  [message |-> <<W("Request failed with status code"), N(ToString(status))>>,
   response |-> [status |-> status, data |-> data]]

CompletionReplies(texts) ==
  {CompletionResolved(ChatData(Str(tx))) : tx \in texts}
    \cup {CompletionResolved(ChatData(Undefined)),
          CompletionResolved(ChatData(Null)),
          CompletionResolved(NoChoicesData),
          CompletionResolved(EmptyChoicesData),
          CompletionRejected(NetworkError)}
    \cup {CompletionRejected(StatusError(st, d)) :
            st \in UpstreamStatuses, d \in UpstreamBodies}

(***************************************************************************)
(* State                                                                   *)
(***************************************************************************)
VARIABLES
  fs,               \* the uploads/ directory: file name -> content
  uploaded,         \* number of files multer has staged so far
  pc,               \* per request: where its handling stands
  audioIn,          \* per request: the audio field the client sent, or NoAudio
  reqFile,          \* per request: req.file, or Undefined
  transcriptText,   \* per request: the handler's local transcriptText
  transcribeCalls,  \* per request: arguments of its transcribe calls
  completionCalls,  \* per request: bodies of its axios.post calls
  transcribeReply,  \* per request: what transcribe settled with
  completionReply,  \* per request: what axios.post settled with
  events,           \* per request: its calls, returns and file operations
  sent,             \* per request: the envelopes handed to res.json
  unhandled         \* per request: an exception left the handler

backendVars ==
  <<fs, uploaded, pc, audioIn, reqFile, transcriptText, transcribeCalls,
    completionCalls, transcribeReply, completionReply, events, sent,
    unhandled>>

NoAudio == [present |-> FALSE]
Audio(bytes) == [present |-> TRUE, bytes |-> bytes]
NoReply == [settled |-> "pending"]

InitBackend ==
  /\ fs = [n \in {} |-> <<>>]
  /\ uploaded = 0
  /\ pc = [r \in Reqs |-> "new"]
  /\ audioIn = [r \in Reqs |-> NoAudio]
  /\ reqFile = [r \in Reqs |-> Undefined]
  /\ transcriptText = [r \in Reqs |-> Undefined]
  /\ transcribeCalls = [r \in Reqs |-> <<>>]
  /\ completionCalls = [r \in Reqs |-> <<>>]
  /\ transcribeReply = [r \in Reqs |-> NoReply]
  /\ completionReply = [r \in Reqs |-> NoReply]
  /\ events = [r \in Reqs |-> <<>>]
  /\ sent = [r \in Reqs |-> <<>>]
  /\ unhandled = [r \in Reqs |-> FALSE]

(***************************************************************************)
(* The file system calls of the handler.  A call on a missing file throws, *)
(* and so does a call the operating system refuses (io = "error").         *)
(***************************************************************************)
IOOutcomes == {"ok", "error"}

\* fs.readFileSync(path), line 282
ReadFileSync(files, path, io) ==
  IF path \notin DOMAIN files
  THEN Threw(Error(Msg("ENOENT: no such file or directory, open")))
  ELSE IF io = "error"
       THEN Threw(Error(Msg("EACCES: permission denied, open")))
       ELSE Got(files[path])

\* fs.unlinkSync(path), line 355: the directory afterwards, or a throw
UnlinkSync(files, path, io) ==
  IF path \notin DOMAIN files
  THEN Threw(Error(Msg("ENOENT: no such file or directory, unlink")))
  ELSE IF io = "error"
       THEN Threw(Error(Msg("EPERM: operation not permitted, unlink")))
       ELSE Got([n \in DOMAIN files \ {path} |-> files[n]])

\* Filename with one fixed name for every staged file
FilenameFixed(count) == 1

\* the name multer gives the next staged file (line 268: a fresh random
\* name under uploads/), from the number of files staged before it
Filename(count) == count + 1

(***************************************************************************)
(* The pieces of the handler (lines 279-367)                               *)
(***************************************************************************)
\* ReadAudio with a request without a file read as an empty recording
ReadAudioOrEmpty(files, file, io) ==
  IF file = Undefined THEN Got(<<>>)
  ELSE ReadFileSync(files, file.path, io)

\* lines 280-282: req.file.path, then the content of that file
ReadAudio(files, file, io) ==
  IF file = Undefined THEN Threw(TypeError("path"))
  ELSE ReadFileSync(files, file.path, io)

\* TranscriptOf without the check of line 288
TranscriptOfUnchecked(transcript) == Got(transcript.text)

\* lines 288-292: the text of the transcript, or the throw of line 289
TranscriptOf(transcript) ==
  IF ~Truthy(transcript.text)
  THEN Threw(Error(Msg("Transcription is empty or failed")))
  ELSE Got(transcript.text)

\* line 333: openrouterResponse.data.choices[0].message.content
RawSummary(data) ==
  LET choices == Prop(data, "choices") IN
  IF ~choices.ok THEN choices
  ELSE LET choice == First(choices.val) IN
       IF ~choice.ok THEN choice
       ELSE LET message == Prop(choice.val, "message") IN
            IF ~message.ok THEN message
            ELSE Prop(message.val, "content")

\* Fallback with the raw text put under action_items
FallbackSwapped(rawSummary) ==
  Obj(("key_points" :> Arr(<<>>)) @@ ("action_items" :> Arr(<<rawSummary>>)))

\* lines 341-344: the fallback summary
Fallback(rawSummary) ==
  Obj(("key_points" :> Arr(<<rawSummary>>)) @@ ("action_items" :> Arr(<<>>)))

\* ParsedSummary taking the fallback whatever the text is
ParsedSummaryAlwaysFallback(rawSummary) == Fallback(rawSummary)

\* lines 336-345: parse the completion, or fall back
ParsedSummary(rawSummary) ==
  LET parsed == JSONParse(rawSummary) IN
  IF parsed.ok THEN parsed.val ELSE Fallback(rawSummary)

\* lines 347-350: the success envelope as written by res.json
SuccessEnvelope(text, parsedSummary) ==
  [status |-> 200,
   body |-> Stringify(Obj(("transcript" :> text)
                            @@ ("summary" :> parsedSummary)))]

\* lines 364-366: error.response?.data || error.message || "Something went wrong"
ErrorValue(error) ==
  LET data == IF error.response = NoResponse THEN Undefined
              ELSE error.response.data
  IN IF Truthy(data) THEN data
     ELSE IF error.message # <<>> THEN Str(error.message)
     ELSE Str(Msg("Something went wrong"))

\* ErrorEnvelope answering with the status of the upstream reply
ErrorEnvelopeUpstreamStatus(error) ==
  [status |-> IF error.response = NoResponse THEN 500
              ELSE error.response.status,
   body |-> Stringify(Obj("error" :> ErrorValue(error)))]

\* lines 364-366: the error envelope as written by res.status(500).json
ErrorEnvelope(error) ==
  [status |-> 500, body |-> Stringify(Obj("error" :> ErrorValue(error)))]

Ev(op) == [op |-> op]
FileEv(op, name) == [op |-> op, file |-> name]

\* the catch block (lines 356-367) of request r, after the events evs:
\* res.json throws when a response was already sent by sentBefore
Catch(r, error, evs, sentBefore) ==
  /\ sent' = [sent EXCEPT ![r] = Append(sentBefore, ErrorEnvelope(error))]
  /\ unhandled' = [unhandled EXCEPT ![r] = sentBefore # <<>>]
  /\ events' = [events EXCEPT ![r] = @ \o evs \o <<Ev("res.json")>>]
  /\ pc' = [pc EXCEPT ![r] = "done"]

(***************************************************************************)
(* State of the React component App (lines 8-14) and of the browser        *)
(* objects it holds                                                        *)
(***************************************************************************)
VARIABLES
  isRecording,      \* useState(false)
  audioBlob,        \* useState(null): Null or the blob of a recording
  transcript,       \* useState(""): the transcript displayed
  summary,          \* useState(""): the summary displayed
  loading,          \* useState(false)
  mediaRecorderRef, \* useRef(null): 0 or the number of a recorder
  chunksRef,        \* useRef([]): the chunks gathered
  pendingStarts,    \* startRecording calls awaiting getUserMedia
  recorders,        \* the MediaRecorders created, each with its stream
  uploads           \* the fetches of handleSubmit

uiVars ==
  <<isRecording, audioBlob, transcript, summary, loading, mediaRecorderRef,
    chunksRef, pendingStarts, recorders, uploads>>

vars == <<backendVars, uiVars>>

\* the empty string of useState(""), and a text made from a blob
EmptyText == [empty |-> TRUE]
TextOf(blob) == [empty |-> FALSE, of |-> blob]

InitUI ==
  /\ isRecording = FALSE
  /\ audioBlob = Null
  /\ transcript = EmptyText
  /\ summary = EmptyText
  /\ loading = FALSE
  /\ mediaRecorderRef = 0
  /\ chunksRef = <<>>
  /\ pendingStarts = 0
  /\ recorders = <<>>
  /\ uploads = <<>>

Init == InitBackend /\ InitUI

(***************************************************************************)
(* Actions                                                                 *)
(***************************************************************************)
\* upload.single("audio") (line 277): multer stages the audio field, if
\* the request has one, and sets req.file
Upload(r, inputs) ==
  /\ pc[r] = "new"
  /\ \E a \in inputs :
       /\ audioIn' = [audioIn EXCEPT ![r] = a]
       /\ IF a.present
          THEN /\ fs' = (Filename(uploaded) :> a.bytes) @@ fs
               /\ uploaded' = uploaded + 1
               /\ reqFile' = [reqFile EXCEPT ![r] = [path |-> Filename(uploaded)]]
          ELSE UNCHANGED <<fs, uploaded, reqFile>>
  /\ pc' = [pc EXCEPT ![r] = "uploaded"]
  /\ UNCHANGED <<transcriptText, transcribeCalls, completionCalls,
                 transcribeReply, completionReply, events, sent, unhandled>>
  /\ UNCHANGED uiVars

\* lines 279-286: the handler up to its first await
HandlerStart(r) ==
  /\ pc[r] = "uploaded"
  /\ \E io \in IOOutcomes :
       LET audioData == ReadAudio(fs, reqFile[r], io)
           read == IF reqFile[r] = Undefined THEN <<>>
                   ELSE <<FileEv("fs.read", reqFile[r].path)>>
       IN IF ~audioData.ok
          THEN /\ Catch(r, audioData.err, read, sent[r])
               /\ UNCHANGED transcribeCalls
          ELSE /\ transcribeCalls' =
                    [transcribeCalls EXCEPT ![r] = Append(@, audioData.val)]
               /\ events' = [events EXCEPT ![r] =
                               @ \o read \o <<Ev("transcribe.call")>>]
               /\ pc' = [pc EXCEPT ![r] = "transcribing"]
               /\ UNCHANGED <<sent, unhandled>>
  /\ UNCHANGED <<fs, uploaded, audioIn, reqFile, transcriptText,
                 completionCalls, transcribeReply, completionReply>>
  /\ UNCHANGED uiVars

\* lines 284-331: transcribe settles; the handler runs to its second await
TranscribeSettle(r, replies) ==
  /\ pc[r] = "transcribing"
  /\ \E reply \in replies :
       /\ transcribeReply' = [transcribeReply EXCEPT ![r] = reply]
       /\ IF reply.settled = "rejected"
          THEN /\ Catch(r, reply.err, <<Ev("transcribe.throw")>>, sent[r])
               /\ UNCHANGED <<transcriptText, completionCalls>>
          ELSE LET text == TranscriptOf(reply) IN
               IF ~text.ok
               THEN /\ Catch(r, text.err, <<Ev("transcribe.return")>>, sent[r])
                    /\ UNCHANGED <<transcriptText, completionCalls>>
               ELSE /\ transcriptText' = [transcriptText EXCEPT ![r] = text.val]
                    /\ completionCalls' =
                         [completionCalls EXCEPT ![r] =
                            Append(@, CompletionRequest(text.val))]
                    /\ events' = [events EXCEPT ![r] =
                         @ \o <<Ev("transcribe.return"), Ev("completion.call")>>]
                    /\ pc' = [pc EXCEPT ![r] = "summarizing"]
                    /\ UNCHANGED <<sent, unhandled>>
  /\ UNCHANGED <<fs, uploaded, audioIn, reqFile, transcribeCalls,
                 completionReply>>
  /\ UNCHANGED uiVars

\* lines 296-367: axios.post settles; the handler runs to its end
CompletionSettle(r, replies) ==
  /\ pc[r] = "summarizing"
  /\ \E reply \in replies, io \in IOOutcomes :
       /\ completionReply' = [completionReply EXCEPT ![r] = reply]
       /\ IF reply.settled = "rejected"
          THEN /\ Catch(r, reply.err, <<Ev("completion.throw")>>, sent[r])
               /\ UNCHANGED fs
          ELSE LET rawSummary == RawSummary(reply.data)
                   returned == Ev("completion.return")
               IN IF ~rawSummary.ok
                  THEN /\ Catch(r, rawSummary.err, <<returned>>, sent[r])
                       /\ UNCHANGED fs
                  ELSE LET envelope ==
                             SuccessEnvelope(transcriptText[r],
                                             ParsedSummary(rawSummary.val))
                           sentNow == Append(sent[r], envelope)
                           audioFilePath == reqFile[r].path
                           removed == UnlinkSync(fs, audioFilePath, io)
                           done == <<returned, Ev("res.json"),
                                     FileEv("fs.unlink", audioFilePath)>>
                       IN IF removed.ok
                          THEN /\ fs' = removed.val
                               /\ sent' = [sent EXCEPT ![r] = sentNow]
                               /\ events' = [events EXCEPT ![r] = @ \o done]
                               /\ pc' = [pc EXCEPT ![r] = "done"]
                               /\ UNCHANGED unhandled
                          ELSE /\ Catch(r, removed.err, done, sentNow)
                               /\ UNCHANGED fs
  /\ UNCHANGED <<uploaded, audioIn, reqFile, transcriptText, transcribeCalls,
                 completionCalls, transcribeReply>>
  /\ UNCHANGED uiVars

(***************************************************************************)
(* Specifications                                                          *)
(***************************************************************************)
\* the inputs of the concurrent specification: one of each kind
FewAudio == {NoAudio, Audio(<<1, 2>>), Audio(<<3>>)}
FewTranscribeReplies ==
  {TranscribeResolved(Str(Msg("Hello"))), TranscribeResolved(Str(<<>>)),
   TranscribeRejected}
FewCompletionReplies ==
  {CompletionResolved(ChatData(Str(ValidText))),
   CompletionResolved(ChatData(Str(ProseText))),
   CompletionResolved(NoChoicesData),
   CompletionRejected(NetworkError),
   CompletionRejected(StatusError(429, Str(Msg("Bad Gateway"))))}

\* NumReqs requests handled concurrently, their steps interleaved
Next ==
  \E r \in Reqs :
    \/ Upload(r, FewAudio)
    \/ HandlerStart(r)
    \/ TranscribeSettle(r, FewTranscribeReplies)
    \/ CompletionSettle(r, FewCompletionReplies)

Spec == Init /\ [][Next]_vars

\* one request, over every input
AllAudio == {NoAudio} \cup {Audio(b) : b \in AudioBodies}
AllTexts == SampleTexts \cup ShortTexts \cup ShapedTexts
AllCompletionReplies == CompletionReplies(AllTexts)

NextOne ==
  \/ Upload(1, AllAudio)
  \/ HandlerStart(1)
  \/ TranscribeSettle(1, TranscribeReplies)
  \/ CompletionSettle(1, AllCompletionReplies)

SpecOne == Init /\ [][NextOne]_vars

(***************************************************************************)
(* The React component App (lines 7-234).  A state update is visible to    *)
(* the next event: React renders again before it handles another event.    *)
(***************************************************************************)
\* line 35: the blob the onstop handler of recorder rec makes of the chunks
Blob(rec, chunks) == [t |-> "blob", rec |-> rec, chunks |-> chunks]

\* the data a recorder hands to ondataavailable: its own recording
Data(rec) == rec

\* a MediaRecorder (recording; stopping: stop() was called and its events
\* are queued; inactive) and the tracks of its stream (live or stopped)
Recorder(state, tracks) == [state |-> state, tracks |-> tracks]

\* line 139: the Start button is rendered, else the Stop button is
StartShown == ~isRecording

\* SubmitDisabled looking at the blob only
SubmitDisabledByBlobOnly == audioBlob = Null

\* line 160: disabled={loading || !audioBlob}
SubmitDisabled == loading \/ audioBlob = Null

\* LoadingAfterSettle with setLoading(false) as the last statement of the
\* try block instead of a finally block
LoadingAfterSettleNoFinally(failed) == failed

\* lines 92-94: finally { setLoading(false) }, after the try block ended
\* normally or through the catch block (failed)
LoadingAfterSettle(failed) == FALSE

\* what fetch resolves with: response.ok, and whether response.json()
\* resolves (json) or rejects
FetchResponses ==
  {[ok |-> TRUE, json |-> TRUE], [ok |-> FALSE, json |-> TRUE],
   [ok |-> TRUE, json |-> FALSE], [ok |-> FALSE, json |-> FALSE]}

\* an upload of handleSubmit: awaiting fetch, awaiting response.json(),
\* or settled
Fetching(blob) ==
  [blob |-> blob, stage |-> "fetch", ok |-> FALSE, json |-> FALSE]

\* lines 17-23: startRecording up to await getUserMedia
StartRecording ==
  /\ StartShown
  /\ Len(recorders) + pendingStarts < MaxRecordings
  /\ transcript' = EmptyText
  /\ summary' = EmptyText
  /\ audioBlob' = Null
  /\ pendingStarts' = pendingStarts + 1
  /\ UNCHANGED <<isRecording, loading, mediaRecorderRef, chunksRef,
                 recorders, uploads>>
  /\ UNCHANGED backendVars

\* lines 23-40: getUserMedia resolves with a stream
GetUserMediaResolve ==
  /\ pendingStarts > 0
  /\ pendingStarts' = pendingStarts - 1
  /\ recorders' = Append(recorders, Recorder("recording", "live"))
  /\ mediaRecorderRef' = Len(recorders) + 1
  /\ chunksRef' = <<>>
  /\ isRecording' = TRUE
  /\ UNCHANGED <<audioBlob, transcript, summary, loading, uploads>>
  /\ UNCHANGED backendVars

\* lines 41-44: getUserMedia rejects
GetUserMediaReject ==
  /\ pendingStarts > 0
  /\ pendingStarts' = pendingStarts - 1
  /\ UNCHANGED <<isRecording, audioBlob, transcript, summary, loading,
                 mediaRecorderRef, chunksRef, recorders, uploads>>
  /\ UNCHANGED backendVars

\* lines 48-54: stopRecording
StopRecording ==
  /\ ~StartShown
  /\ IF mediaRecorderRef # 0
     THEN /\ recorders' =
               [recorders EXCEPT ![mediaRecorderRef] =
                  Recorder(IF @.state = "recording" THEN "stopping"
                           ELSE @.state, "stopped")]
          /\ isRecording' = FALSE
     ELSE UNCHANGED <<recorders, isRecording>>
  /\ UNCHANGED <<audioBlob, transcript, summary, loading, mediaRecorderRef,
                 chunksRef, pendingStarts, uploads>>
  /\ UNCHANGED backendVars

\* lines 30-37: the task of a stopped recorder: ondataavailable with its
\* data, then onstop
RecorderStopped(rec) ==
  /\ recorders[rec].state = "stopping"
  /\ chunksRef' = Append(chunksRef, Data(rec))
  /\ audioBlob' = Blob(rec, chunksRef')
  /\ recorders' = [recorders EXCEPT ![rec].state = "inactive"]
  /\ UNCHANGED <<isRecording, transcript, summary, loading,
                 mediaRecorderRef, pendingStarts, uploads>>
  /\ UNCHANGED backendVars

\* lines 57-77: handleSubmit up to await fetch
HandleSubmit ==
  /\ ~SubmitDisabled
  /\ Len(uploads) < MaxUploads
  /\ IF audioBlob = Null
     THEN UNCHANGED <<loading, transcript, summary, uploads>>
     ELSE /\ loading' = TRUE
          /\ transcript' = EmptyText
          /\ summary' = EmptyText
          /\ uploads' = Append(uploads, Fetching(audioBlob))
  /\ UNCHANGED <<isRecording, audioBlob, mediaRecorderRef, chunksRef,
                 pendingStarts, recorders>>
  /\ UNCHANGED backendVars

\* lines 71-80: fetch resolves and handleSubmit awaits response.json()
FetchResolve(i) ==
  /\ uploads[i].stage = "fetch"
  /\ \E response \in FetchResponses :
       uploads' = [uploads EXCEPT ![i] =
                     [blob |-> @.blob, stage |-> "json",
                      ok |-> response.ok, json |-> response.json]]
  /\ UNCHANGED <<isRecording, audioBlob, transcript, summary, loading,
                 mediaRecorderRef, chunksRef, pendingStarts, recorders>>
  /\ UNCHANGED backendVars

\* lines 71-94: fetch rejects: catch, then finally
FetchReject(i) ==
  /\ uploads[i].stage = "fetch"
  /\ uploads' = [uploads EXCEPT ![i].stage = "settled"]
  /\ loading' = LoadingAfterSettle(TRUE)
  /\ UNCHANGED <<isRecording, audioBlob, transcript, summary,
                 mediaRecorderRef, chunksRef, pendingStarts, recorders>>
  /\ UNCHANGED backendVars

\* lines 80-94: response.json() settles and handleSubmit runs to its end
JsonSettle(i) ==
  /\ uploads[i].stage = "json"
  /\ uploads' = [uploads EXCEPT ![i].stage = "settled"]
  /\ IF uploads[i].json /\ uploads[i].ok
     THEN /\ transcript' = TextOf(uploads[i].blob)
          /\ summary' = TextOf(uploads[i].blob)
          /\ loading' = LoadingAfterSettle(FALSE)
     ELSE /\ loading' = LoadingAfterSettle(TRUE)
          /\ UNCHANGED <<transcript, summary>>
  /\ UNCHANGED <<isRecording, audioBlob, mediaRecorderRef, chunksRef,
                 pendingStarts, recorders>>
  /\ UNCHANGED backendVars

RecorderTask == \E rec \in DOMAIN recorders : RecorderStopped(rec)
FetchResolves == \E i \in DOMAIN uploads : FetchResolve(i)
FetchRejects == \E i \in DOMAIN uploads : FetchReject(i)
JsonSettles == \E i \in DOMAIN uploads : JsonSettle(i)

\* the user's clicks and the browser's callbacks, in any order
NextUI ==
  \/ StartRecording
  \/ GetUserMediaResolve
  \/ GetUserMediaReject
  \/ StopRecording
  \/ RecorderTask
  \/ HandleSubmit
  \/ FetchResolves
  \/ FetchRejects
  \/ JsonSettles

SpecUI == Init /\ [][NextUI]_vars

\* every fetch settles, and so does every response.json()
SpecUIFair ==
  /\ SpecUI
  /\ WF_vars(FetchResolves \/ FetchRejects)
  /\ WF_vars(JsonSettles)

(***************************************************************************)
(* Properties                                                              *)
(***************************************************************************)
Done(r) == pc[r] = "done"
Staged(r) == reqFile[r] # Undefined

\* the envelope the caller of request r receives: the first one sent
Response(r) == sent[r][1]
IsSuccess(envelope) == envelope.status = 200
IsErrorEnvelope(envelope) ==
  envelope.status # 200 /\ DOMAIN envelope.body.o = {"error"}

\* C1: once the handler of a request whose audio was staged has finished,
\* the staged file is gone, whichever way the pipeline ended (summary sent,
\* empty transcript, transcription failure, completion failure).
C1_StagedFileRemoved ==
  \A r \in Reqs :
    Done(r) /\ Staged(r) /\ transcribeReply[r] # NoReply
      => reqFile[r].path \notin DOMAIN fs

\* C2: a request is answered with exactly one envelope: the handler never
\* hands a second envelope to res.json, and it never ends without one.
C2_ExactlyOneEnvelope ==
  \A r \in Reqs :
    /\ Len(sent[r]) <= 1
    /\ Done(r) => Len(sent[r]) = 1

\* the completion call failed in transport or with a non-success status
CompletionRejectedFor(r) == completionReply[r].settled = "rejected"
\* the completion call returned without content, or with empty content
CompletionContentMissing(r) ==
  /\ completionReply[r].settled = "resolved"
  /\ LET rawSummary == RawSummary(completionReply[r].data) IN
       \/ ~rawSummary.ok
       \/ rawSummary.val \in {Undefined, Null, Str(<<>>)}

\* C3: a completion call that fails in transport, returns a non-success
\* status, or returns missing or empty content ends in an error envelope,
\* never in a 200 response.
C3_CompletionFailureAborts ==
  \A r \in Reqs :
    Done(r) /\ (CompletionRejectedFor(r) \/ CompletionContentMissing(r))
      => /\ IsErrorEnvelope(Response(r))
         /\ \A i \in 1..Len(sent[r]) : ~IsSuccess(sent[r][i])

\* the shape {key_points: [...], action_items: [...]}
IsSummaryShape(v) ==
  /\ v.t = "object"
  /\ {"key_points", "action_items"} \subseteq DOMAIN v.o
  /\ v.o["key_points"].t = "array"
  /\ v.o["action_items"].t = "array"

\* C4: the summary of every 200 response has the fields key_points and
\* action_items, each a sequence.
C4_SummaryShape ==
  \A r \in Reqs :
    \A i \in 1..Len(sent[r]) :
      IsSuccess(sent[r][i]) => IsSummaryShape(sent[r][i].body.o["summary"])

\* C5: a request without an audio field makes no outbound call, and is
\* answered with an error envelope.
C5_MissingAudioFailsFirst ==
  \A r \in Reqs :
    pc[r] # "new" /\ ~audioIn[r].present
      => /\ transcribeCalls[r] = <<>>
         /\ completionCalls[r] = <<>>
         /\ pc[r] \in {"uploaded", "done"}
         /\ Done(r) => sent[r] # <<>> /\ IsErrorEnvelope(Response(r))
C5_Witness ==
  \E r \in Reqs :
    Done(r) /\ ~audioIn[r].present /\ Len(sent[r]) = 1
      /\ IsErrorEnvelope(Response(r))

\* transcribe returned a transcript whose text is empty or missing
EmptyTranscript(r) ==
  /\ transcribeReply[r].settled = "resolved"
  /\ transcribeReply[r].text \in {Str(<<>>), Null, Undefined}

\* C6: when transcribe returns an empty or missing text, the request ends
\* in the error envelope of the transcript error, and the completion
\* capability is never called for it.
C6_EmptyTranscriptFails ==
  \A r \in Reqs :
    EmptyTranscript(r)
      => /\ completionCalls[r] = <<>>
         /\ Done(r)
         /\ sent[r] = <<[status |-> 500,
                         body |-> Obj("error" :>
                           Str(Msg("Transcription is empty or failed")))]>>
C6_Witness == \E r \in Reqs : EmptyTranscript(r) /\ Done(r)

\* the completion call of request r returned the text tx as its content
CompletionText(r) == RawSummary(completionReply[r].data).val.s
HasCompletionText(r) ==
  /\ completionReply[r].settled = "resolved"
  /\ RawSummary(completionReply[r].data).ok
  /\ RawSummary(completionReply[r].data).val.t = "string"

\* C7: for a completion text that is not valid JSON, the response is 200
\* with the summary {key_points: [the text], action_items: []}.
C7_FallbackSummary ==
  \A r \in Reqs :
    HasCompletionText(r) /\ ~JSONParse(Str(CompletionText(r))).ok
      => /\ Done(r)
         /\ Response(r) =
              [status |-> 200,
               body |-> Obj(("transcript" :> transcribeReply[r].text)
                 @@ ("summary" :>
                       Obj(("key_points" :> Arr(<<Str(CompletionText(r))>>))
                             @@ ("action_items" :> Arr(<<>>)))))]
C7_Witness ==
  \E r \in Reqs :
    /\ HasCompletionText(r) /\ CompletionText(r) = ProseText
    /\ Done(r) /\ IsSuccess(Response(r))

\* the upstream status is found in the envelope: as its status, as one of
\* its members, or inside its error text
StatusRetrievable(envelope, status) ==
  \/ envelope.status = status
  \/ \E k \in DOMAIN envelope.body.o :
       \/ envelope.body.o[k] = Num(ToString(status))
       \/ /\ envelope.body.o[k].t = "string"
          /\ \E i \in 1..Len(envelope.body.o[k].s) :
               envelope.body.o[k].s[i] = N(ToString(status))
\* the upstream body is found in the envelope (an empty body has nothing
\* to find)
BodyRetrievable(envelope, data) ==
  ~Truthy(data) \/ \E k \in DOMAIN envelope.body.o : envelope.body.o[k] = data

UpstreamStatusFailure(r) ==
  /\ completionReply[r].settled = "rejected"
  /\ completionReply[r].err.response # NoResponse

Position(r, op) ==
  IF \E i \in 1..Len(events[r]) : events[r][i].op = op
  THEN CHOOSE i \in 1..Len(events[r]) :
         /\ events[r][i].op = op
         /\ \A j \in 1..(i - 1) : events[r][j].op # op
  ELSE 0
Count(r, op) == Cardinality({i \in 1..Len(events[r]) : events[r][i].op = op})

\* transcribe returned the non-empty text of request r
TranscribedText(r) ==
  /\ transcribeReply[r].settled = "resolved"
  /\ transcribeReply[r].text.t = "string"
  /\ transcribeReply[r].text.s # <<>>

\* C9: no capability is called twice for a request; when transcribe
\* returns a non-empty text T, the completion capability is called once,
\* after that return, with a user message that embeds exactly T, and a
\* 200 response carries T as its transcript.
C9_PipelineOrder ==
  \A r \in Reqs :
    /\ Len(transcribeCalls[r]) <= 1 /\ Count(r, "transcribe.call") <= 1
    /\ Len(completionCalls[r]) <= 1 /\ Count(r, "completion.call") <= 1
    /\ TranscribedText(r) =>
         LET T == transcribeReply[r].text.s
             content == completionCalls[r][1].messages[2].content
         IN /\ Len(transcribeCalls[r]) = 1
            /\ Len(completionCalls[r]) = 1
            /\ completionCalls[r][1].messages[2].role = "user"
            /\ Len(content) = Len(T) + 4
            /\ SubSeq(content, 3, Len(T) + 2) = T
            /\ 0 < Position(r, "transcribe.call")
            /\ Position(r, "transcribe.call") < Position(r, "transcribe.return")
            /\ Position(r, "transcribe.return") < Position(r, "completion.call")
            /\ \A i \in 1..Len(sent[r]) :
                 IsSuccess(sent[r][i])
                   => sent[r][i].body.o["transcript"] = Str(T)
C9_Witness ==
  \E r \in Reqs :
    /\ TranscribedText(r) /\ audioIn[r].present /\ audioIn[r].bytes # <<>>
    /\ Done(r) /\ IsSuccess(Response(r))

\* the handler of request r removed its staged file
RemovedOwnFile(r) ==
  Done(r) /\ Len(sent[r]) = 1 /\ IsSuccess(Response(r))

\* C10: requests handled concurrently do not touch each other's state: a
\* request reads and removes only the file staged for it, that file holds
\* its own audio until its own handler removes it, the audio it sends to
\* transcribe is its own, and its response carries its own transcript and
\* the summary of its own completion.
C10_RequestIsolation ==
  \A r \in Reqs :
    /\ \A i \in 1..Len(events[r]) :
         events[r][i].op \in {"fs.read", "fs.unlink"}
           => Staged(r) /\ events[r][i].file = reqFile[r].path
    /\ \A q \in Reqs \ {r} :
         Staged(r) /\ Staged(q) => reqFile[r].path # reqFile[q].path
    /\ Staged(r) /\ ~RemovedOwnFile(r)
         => /\ reqFile[r].path \in DOMAIN fs
            /\ fs[reqFile[r].path] = audioIn[r].bytes
    /\ \A i \in 1..Len(transcribeCalls[r]) :
         audioIn[r].present /\ transcribeCalls[r][i] = audioIn[r].bytes
    /\ \A i \in 1..Len(sent[r]) :
         IsSuccess(sent[r][i])
           => /\ sent[r][i].body.o["transcript"] = transcribeReply[r].text
              /\ HasCompletionText(r)
              /\ sent[r][i].body.o["summary"]
                   = ParsedSummary(Str(CompletionText(r)))
C10_Witness ==
  \E r \in Reqs, q \in Reqs :
    /\ r # q
    /\ Staged(r) /\ Staged(q) /\ audioIn[r] # audioIn[q]
    /\ RemovedOwnFile(r)
    /\ pc[q] \in {"transcribing", "summarizing"}

\* the failure kinds of a request: no audio field, empty transcript,
\* transcription failure, completion failure (transport or status)
MissingAudio(r) == pc[r] # "new" /\ ~audioIn[r].present
TranscribeFailed(r) == transcribeReply[r].settled = "rejected"
FailureKind(r) ==
  \/ MissingAudio(r)
  \/ EmptyTranscript(r)
  \/ TranscribeFailed(r)
  \/ CompletionRejectedFor(r)

\* C11: every failure kind ends in the same response: status 500 and a
\* body whose only field is error, holding the upstream body when the
\* provider sent one and a message text otherwise.
C11_UniformErrorEnvelope ==
  \A r \in Reqs :
    Done(r) /\ FailureKind(r)
      => /\ Len(sent[r]) = 1
         /\ Response(r).status = 500
         /\ Response(r).body.t = "object"
         /\ DOMAIN Response(r).body.o = {"error"}
         /\ IF UpstreamStatusFailure(r)
               /\ Truthy(completionReply[r].err.response.data)
            THEN Response(r).body.o["error"]
                   = completionReply[r].err.response.data
            ELSE /\ Response(r).body.o["error"].t = "string"
                 /\ Response(r).body.o["error"].s # <<>>
C11_Witness ==
  \E r \in Reqs :
    /\ Done(r) /\ UpstreamStatusFailure(r)
    /\ completionReply[r].err.response.status = 429
    /\ Response(r).status = 500
    /\ Response(r).body.o["error"] = completionReply[r].err.response.data

\* the array of the strings items
StringArray(items) == Arr([i \in 1..Len(items) |-> Str(Msg(items[i]))])

\* C12: for a completion text that is valid JSON of the requested shape,
\* the response is 200 and its summary is the object the text denotes:
\* both arrays with their strings in the order of the text, nothing else.
C12_ValidSummaryPassthrough ==
  \A r \in Reqs :
    (HasCompletionText(r) /\ CompletionText(r) \in ShapedTexts) =>
      \A kp \in ItemLists, ai \in ItemLists, sw \in BOOLEAN :
        CompletionText(r) = ShapedText(kp, ai, sw)
          => /\ Done(r)
             /\ Response(r) =
                  [status |-> 200,
                   body |-> Obj(("transcript" :> transcribeReply[r].text)
                     @@ ("summary" :>
                           Obj(("key_points" :> StringArray(kp))
                                 @@ ("action_items" :> StringArray(ai)))))]
C12_Witness ==
  \E r \in Reqs :
    /\ HasCompletionText(r)
    /\ CompletionText(r)
         = ShapedText(<<"Buy milk", "Call Bob">>, <<"Call Bob">>, TRUE)
    /\ Done(r) /\ IsSuccess(Response(r))
    /\ Response(r).body.o["summary"].o["key_points"]
         = StringArray(<<"Buy milk", "Call Bob">>)

\* C13: a transcript or summary on display was made from the recording
\* that audioBlob holds; a response to the upload of an earlier recording
\* is not displayed once startRecording has cleared the results.
C13_DisplayedResultIsCurrent ==
  /\ transcript # EmptyText => audioBlob # Null /\ transcript.of = audioBlob
  /\ summary # EmptyText => audioBlob # Null /\ summary.of = audioBlob

\* C14: the blob that the onstop handler of a recorder stores in
\* audioBlob is made of the data of that recorder alone.
C14_BlobIsOwnChunks ==
  audioBlob # Null => audioBlob.chunks = <<Data(audioBlob.rec)>>

\* C15: when nothing is recording and no startRecording awaits the
\* microphone, the tracks of every stream acquired are stopped.
C15_StreamsStopped ==
  ~isRecording /\ pendingStarts = 0
    => \A rec \in DOMAIN recorders : recorders[rec].tracks = "stopped"

Unsettled == {i \in DOMAIN uploads : uploads[i].stage # "settled"}

\* C16: loading is true exactly while an upload of handleSubmit is
\* unsettled, and once loading is true it becomes false again (every
\* fetch and every response.json() settling), whatever the outcome.
C16_LoadingSettles ==
  /\ [](loading <=> Unsettled # {})
  /\ loading ~> ~loading
C16_Witness ==
  /\ ~loading
  /\ Len(uploads) = 2
  /\ uploads[1].stage = "settled" /\ uploads[1].json /\ ~uploads[1].ok
  /\ uploads[2].stage = "settled" /\ ~uploads[2].json

\* C17: at most one upload is unsettled at any time.
C17_AtMostOneUpload == Cardinality(Unsettled) <= 1
C17_Witness ==
  /\ Len(uploads) = 2
  /\ uploads[1].stage = "settled"
  /\ uploads[2].stage = "fetch"
  /\ loading /\ SubmitDisabled /\ audioBlob # Null

====
